---- MODULE Spec2Model ----
(***************************************************************************)
(* Model of the amaunator polling daemon: the MonitorManager registry      *)
(* (core/manager.py), the per-target scheduler tasks (core/monitoring.py), *)
(* the OutputProcessor consumer loop (outputs.py) and the shutdown         *)
(* sequence of main (main.py).  Every asyncio task is a process whose      *)
(* steps are the code between two suspension points (await).               *)
(*                                                                         *)
(* Spec drives the manager by direct calls, ApiSpec through the HTTP       *)
(* routes (api/routes.py); TimedSpec and TimedFairSpec follow one          *)
(* scheduler task against the event loop's clock; RestartSpec lets an id   *)
(* be started again after it was stopped.                                  *)
(***************************************************************************)
EXTENDS Integers, Sequences, FiniteSets, TLC

(* Bounds: the number of distinct target ids, of scheduler tasks ever       *)
(* spawned, and of results ever put on the queue.                          *)
NumIds == 1
MaxTasks == 1
MaxEmit == 2

Ids == 1..NumIds

(* Bound of the timed specification: the last second of the clock. *)
MaxTime == 6

(* Bound of the restart specification: the scheduler tasks that may be     *)
(* spawned beyond MaxTasks.                                                *)
MaxRestarts == 1

(* Target definitions handed to start_monitoring: name, interval, timeout. *)
TargetDefs ==
    { [name |-> "a", interval |-> 2, timeout |-> 1],
      [name |-> "b", interval |-> 1, timeout |-> 1] }

(* Definitions given to the timed scheduler: interval >= timeout >= 1 s. *)
TimedDefs ==
    { [interval |-> 1, timeout |-> 1], [interval |-> 2, timeout |-> 1],
      [interval |-> 2, timeout |-> 2], [interval |-> 3, timeout |-> 1] }

(* Bodies posted to POST /targets: the valid definitions and one with      *)
(* interval < timeout.                                                     *)
CreateInputs == TargetDefs \cup { [name |-> "c", interval |-> 1, timeout |-> 2] }

(* Values a poll can return: a reading, or the negative error sentinel. *)
PollValues == {-1, 7}

(* Optional fields (float | None, int | None). *)
None == <<>>
Some(v) == <<v>>

(* models.py TargetStatus(): the freshly constructed status. *)
TargetStatus ==
    [last_check |-> None, last_value |-> None, check_count |-> 0, error_count |-> 0]

(* models.py TargetResult: timestamp is never set by the producer and keeps its default. *)
TargetResult(id, value, task, seq) ==
    [target_id |-> id, value |-> value, timestamp |-> 0, task |-> task, seq |-> seq]

(* dict helpers: d[k] = v and del d[k] *)
Put(d, k, v) == [x \in (DOMAIN d) \cup {k} |-> IF x = k THEN v ELSE d[x]]
Del(d, k) == [x \in (DOMAIN d) \ {k} |-> d[x]]
EmptyDict == [x \in {} |-> 0]

VARIABLES
    targets,          \* MonitorManager.targets: id -> definition
    target_statuses,  \* MonitorManager.target_statuses: id -> TargetStatus
    tasks,            \* MonitorManager.tasks: id -> scheduler task (index in scheds)
    stop_events,      \* MonitorManager.stop_events: id -> event (index in scheds)
    active_targets,   \* the ACTIVE_TARGETS gauge
    scheds,           \* every scheduler task ever spawned: [id, pc, stop_set]
    queue,            \* result_queue contents (FIFO)
    unfinished,       \* result_queue._unfinished_tasks
    cpc,              \* OutputProcessor.run position
    get_task,         \* state of the consumer's get_task
    stop_task,        \* state of the consumer's stop_task
    result,           \* item the get_task took from the queue (<<>> if none)
    processed_count,  \* OutputProcessor.processed_count
    error_count,      \* OutputProcessor.error_count
    proc_stop,        \* OutputProcessor.stop_event is set
    mpc,              \* position of main
    emitted,          \* history: number of results ever put on the queue
    applied,          \* history: [task, seq] of the results passed to update_target_status, in order
    handled,          \* history: [task, seq] of the results passed to handler.handle, in order
    counted,          \* history: per registered id, the results counted in processed_count
                      \*          since its registration: [n |-> all, e |-> the negative ones]
    put_before_stop,  \* history: value of emitted when main called stop_all (-1 before)
    last_call,        \* history: marks a call that returned early ("other" otherwise)
    clock,            \* timed specification: loop.time() in whole seconds
    timed,            \* timed specification: the scheduler task observed against the clock
    emit_times,       \* history: the times at which that task put a result on the queue
    raised            \* history: a poll of that task has raised

mgr_vars == <<targets, target_statuses, tasks, stop_events, active_targets>>
queue_vars == <<queue, unfinished, emitted>>
cons_vars == <<cpc, get_task, stop_task, result, processed_count, error_count>>
hist_vars == <<applied, handled, counted>>
timed_vars == <<clock, timed, emit_times, raised>>
daemon_vars == <<targets, target_statuses, tasks, stop_events, active_targets, scheds,
                 queue, unfinished, cpc, get_task, stop_task, result, processed_count,
                 error_count, proc_stop, mpc, emitted, applied, handled, counted,
                 put_before_stop, last_call>>
vars == <<daemon_vars, timed_vars>>

(***************************************************************************)
(* MonitorManager                                                          *)
(***************************************************************************)

(* The manager's mutable state as one record, so that the synchronous     *)
(* methods are functions from state to state.                              *)
Mgr ==
    [targets |-> targets, target_statuses |-> target_statuses, tasks |-> tasks,
     stop_events |-> stop_events, active_targets |-> active_targets, scheds |-> scheds]

get_target(m, id) == IF id \in DOMAIN m.targets THEN Some(m.targets[id]) ELSE None

get_active_count(m) == Cardinality(DOMAIN m.tasks)

(* Mutation: only non-negative readings are counted as checks. *)
update_target_status_okonly(statuses, id, value, timestamp) ==
    LET base == IF id \notin DOMAIN statuses THEN Put(statuses, id, TargetStatus) ELSE statuses
        st == base[id]
        upd == [st EXCEPT !.check_count = IF value < 0 THEN @ ELSE @ + 1,
                          !.last_check = Some(timestamp),
                          !.last_value = Some(value),
                          !.error_count = IF value < 0 THEN @ + 1 ELSE @]
    IN Put(base, id, upd)

(* manager.py update_target_status: creates a status when the id has none. *)
update_target_status(statuses, id, value, timestamp) ==
    LET base == IF id \notin DOMAIN statuses THEN Put(statuses, id, TargetStatus) ELSE statuses
        st == base[id]
        upd == [st EXCEPT !.check_count = @ + 1,
                          !.last_check = Some(timestamp),
                          !.last_value = Some(value),
                          !.error_count = IF value < 0 THEN @ + 1 ELSE @]
    IN Put(base, id, upd)

(* Mutation: start_monitoring without the "already exists" early return. *)
start_monitoring_noguard(m, t) ==
    LET h == Len(m.scheds) + 1 IN
    [m EXCEPT !.targets = Put(@, t.id, [name |-> t.name, interval |-> t.interval, timeout |-> t.timeout]),
              !.target_statuses = Put(@, t.id, TargetStatus),
              !.stop_events = Put(@, t.id, h),
              !.scheds = Append(@, [id |-> t.id, pc |-> "created", stop_set |-> FALSE]),
              !.tasks = Put(@, t.id, h),
              !.active_targets = @ + 1]

(* Mutation: start_monitoring leaves the status to the first update. *)
start_monitoring_lazystatus(m, t) ==
    IF t.id \in DOMAIN m.tasks
    THEN m
    ELSE LET h == Len(m.scheds) + 1 IN
         [m EXCEPT !.targets = Put(@, t.id, [name |-> t.name, interval |-> t.interval, timeout |-> t.timeout]),
                   !.stop_events = Put(@, t.id, h),
                   !.scheds = Append(@, [id |-> t.id, pc |-> "created", stop_set |-> FALSE]),
                   !.tasks = Put(@, t.id, h),
                   !.active_targets = @ + 1]

(* manager.py start_monitoring *)
start_monitoring(m, t) ==
    IF t.id \in DOMAIN m.tasks
    THEN m
    ELSE LET h == Len(m.scheds) + 1 IN
         [m EXCEPT !.targets = Put(@, t.id, [name |-> t.name, interval |-> t.interval, timeout |-> t.timeout]),
                   !.target_statuses = Put(@, t.id, TargetStatus),
                   !.stop_events = Put(@, t.id, h),
                   !.scheds = Append(@, [id |-> t.id, pc |-> "created", stop_set |-> FALSE]),
                   !.tasks = Put(@, t.id, h),
                   !.active_targets = @ + 1]

(* Mutation: stop_monitoring drops the stop event without setting it. *)
stop_monitoring_noset(m, id) ==
    IF id \notin DOMAIN m.tasks
    THEN m
    ELSE LET m1 == [m EXCEPT !.stop_events = Del(@, id)]
             m2 == [m1 EXCEPT !.tasks = Del(@, id)]
             m3 == IF id \in DOMAIN m2.targets THEN [m2 EXCEPT !.targets = Del(@, id)] ELSE m2
             m4 == IF id \in DOMAIN m3.target_statuses
                   THEN [m3 EXCEPT !.target_statuses = Del(@, id)] ELSE m3
         IN [m4 EXCEPT !.active_targets = @ - 1]

(* Mutation: stop_monitoring without the "not found" early return. *)
stop_monitoring_noguard(m, id) ==
    LET m1 == IF id \in DOMAIN m.stop_events
              THEN [m EXCEPT !.scheds[m.stop_events[id]].stop_set = TRUE,
                             !.stop_events = Del(@, id)]
              ELSE m
        m2 == [m1 EXCEPT !.tasks = Del(@, id)]
        m3 == IF id \in DOMAIN m2.targets THEN [m2 EXCEPT !.targets = Del(@, id)] ELSE m2
        m4 == IF id \in DOMAIN m3.target_statuses
              THEN [m3 EXCEPT !.target_statuses = Del(@, id)] ELSE m3
    IN [m4 EXCEPT !.active_targets = @ - 1]

(* Mutation: stop_monitoring forgets the definition of the target. *)
stop_monitoring_keeptarget(m, id) ==
    IF id \notin DOMAIN m.tasks
    THEN m
    ELSE LET m1 == IF id \in DOMAIN m.stop_events
                   THEN [m EXCEPT !.scheds[m.stop_events[id]].stop_set = TRUE,
                                  !.stop_events = Del(@, id)]
                   ELSE m
             m2 == [m1 EXCEPT !.tasks = Del(@, id)]
             m4 == IF id \in DOMAIN m2.target_statuses
                   THEN [m2 EXCEPT !.target_statuses = Del(@, id)] ELSE m2
         IN [m4 EXCEPT !.active_targets = @ - 1]

(* manager.py stop_monitoring *)
stop_monitoring(m, id) ==
    IF id \notin DOMAIN m.tasks
    THEN m
    ELSE LET m1 == IF id \in DOMAIN m.stop_events
                   THEN [m EXCEPT !.scheds[m.stop_events[id]].stop_set = TRUE,
                                  !.stop_events = Del(@, id)]
                   ELSE m
             m2 == [m1 EXCEPT !.tasks = Del(@, id)]
             m3 == IF id \in DOMAIN m2.targets THEN [m2 EXCEPT !.targets = Del(@, id)] ELSE m2
             m4 == IF id \in DOMAIN m3.target_statuses
                   THEN [m3 EXCEPT !.target_statuses = Del(@, id)] ELSE m3
         IN [m4 EXCEPT !.active_targets = @ - 1]

(* manager.py stop_all: stop_monitoring for every id of a snapshot of tasks. *)
RECURSIVE stop_each(_, _)
stop_each(m, ids) ==
    IF ids = {} THEN m
    ELSE LET id == CHOOSE x \in ids : \A y \in ids : x <= y
         IN stop_each(stop_monitoring(m, id), ids \ {id})

stop_all(m) == stop_each(m, DOMAIN m.tasks)

SetMgr(m) ==
    /\ targets' = m.targets
    /\ target_statuses' = m.target_statuses
    /\ tasks' = m.tasks
    /\ stop_events' = m.stop_events
    /\ active_targets' = m.active_targets
    /\ scheds' = m.scheds

(* Mutation: the statistics count every result taken from the queue. *)
get_stats_counts_errors(m, processed, qsize, errors) ==
    [active_targets |-> get_active_count(m), processed_messages |-> processed + errors,
     queue_size |-> qsize, total_errors |-> errors]

(* routes.py get_stats: the SystemStats built from the manager and the     *)
(* processor (uptime_seconds left out).                                    *)
get_stats(m, processed, qsize, errors) ==
    [active_targets |-> get_active_count(m), processed_messages |-> processed,
     queue_size |-> qsize, total_errors |-> errors]

(* The state in which main waits for the shutdown signal: the manager is   *)
(* empty and output_task, created first, is in its first asyncio.wait.     *)
DaemonInit ==
    /\ targets = EmptyDict
    /\ target_statuses = EmptyDict
    /\ tasks = EmptyDict
    /\ stop_events = EmptyDict
    /\ active_targets = 0
    /\ scheds = <<>>
    /\ queue = <<>>
    /\ unfinished = 0
    /\ cpc = "waiting"
    /\ get_task = "pending"
    /\ stop_task = "pending"
    /\ result = None
    /\ processed_count = 0
    /\ error_count = 0
    /\ proc_stop = FALSE
    /\ mpc = "running"
    /\ emitted = 0
    /\ applied = <<>>
    /\ handled = <<>>
    /\ counted = EmptyDict
    /\ put_before_stop = -1
    /\ last_call = "other"

(* No scheduler task is observed against the clock. *)
NoTimed ==
    [interval |-> 0, timeout |-> 0, pc |-> "none", start_time |-> 0,
     next_run_time |-> 0, until |-> 0, stop_set |-> FALSE,
     stopped_in |-> "none", emits_at_stop |-> 0]

Init ==
    /\ DaemonInit
    /\ clock = 0
    /\ timed = NoTimed
    /\ emit_times = <<>>
    /\ raised = FALSE

(* The API server serves requests until server_task has finished. *)
ApiServing == mpc \in {"running", "await_server"}

(* A caller (routes.add_target, a test) calls manager.start_monitoring(target). *)
StartMonitoring ==
    \E id \in Ids, d \in TargetDefs :
        LET t == [id |-> id, name |-> d.name, interval |-> d.interval, timeout |-> d.timeout] IN
        /\ ApiServing
        /\ id \in DOMAIN tasks \/ Len(scheds) < MaxTasks
        /\ SetMgr(start_monitoring(Mgr, t))
        /\ last_call' = IF id \in DOMAIN tasks THEN "start_dup" ELSE "other"
        /\ counted' = IF id \in DOMAIN tasks THEN counted ELSE Put(counted, id, [n |-> 0, e |-> 0])
        /\ UNCHANGED <<queue_vars, cons_vars, applied, handled, proc_stop, mpc, put_before_stop>>
        /\ UNCHANGED timed_vars

(* A caller (routes.remove_target, a test) calls manager.stop_monitoring(id). *)
StopMonitoring ==
    \E id \in Ids :
        /\ ApiServing
        /\ SetMgr(stop_monitoring(Mgr, id))
        /\ last_call' = IF id \in DOMAIN tasks THEN "other" ELSE "stop_unknown"
        /\ counted' = Del(counted, id)
        /\ UNCHANGED <<queue_vars, cons_vars, applied, handled, proc_stop, mpc, put_before_stop>>
        /\ UNCHANGED timed_vars

(***************************************************************************)
(* Scheduler task: monitor() consuming monitor_stream(), i.e. the          *)
(* periodic_task wrapper around one poll per cycle.                        *)
(***************************************************************************)

(* Mutation: the queue hands out the newest item first. *)
queue_put_lifo(q, item) == <<item>> \o q

(* asyncio.Queue.put_nowait on the FIFO queue: the item goes to the tail. *)
queue_put(q, item) == Append(q, item)

Polling == {h \in 1..Len(scheds) : scheds[h].pc = "poll"}

(* "while not stop_event.is_set()": where the task is after evaluating it. *)
LoopCheck(h) == IF scheds[h].stop_set THEN "stopped" ELSE "wait"

(* First run of the task: next_run_time = loop.time(), then the while test. *)
SchedStart ==
    \E h \in 1..Len(scheds) :
        /\ scheds[h].pc = "created"
        /\ scheds' = [scheds EXCEPT ![h].pc = LoopCheck(h)]
        /\ last_call' = "other"
        /\ UNCHANGED <<mgr_vars, queue_vars, cons_vars, hist_vars, proc_stop, mpc, put_before_stop>>
        /\ UNCHANGED timed_vars

(* wait_for(stop_event.wait(), timeout=delay) returns; stop test; poll starts. *)
SchedWake ==
    \E h \in 1..Len(scheds) :
        /\ scheds[h].pc = "wait"
        /\ scheds[h].stop_set \/ emitted + Cardinality(Polling) < MaxEmit
        /\ scheds' = [scheds EXCEPT ![h].pc = IF scheds[h].stop_set THEN "stopped" ELSE "poll"]
        /\ last_call' = "other"
        /\ UNCHANGED <<mgr_vars, queue_vars, cons_vars, hist_vars, proc_stop, mpc, put_before_stop>>
        /\ UNCHANGED timed_vars

(* poll_func returns: one TargetResult is yielded and put on the queue,   *)
(* next_run_time += interval, and the while test is evaluated.             *)
SchedPollReturn ==
    \E h \in 1..Len(scheds), v \in PollValues :
        /\ scheds[h].pc = "poll"
        /\ queue' = queue_put(queue, TargetResult(scheds[h].id, v, h, emitted + 1))
        /\ unfinished' = unfinished + 1
        /\ emitted' = emitted + 1
        /\ scheds' = [scheds EXCEPT ![h].pc = LoopCheck(h)]
        /\ last_call' = "other"
        /\ UNCHANGED <<mgr_vars, cons_vars, hist_vars, proc_stop, mpc, put_before_stop>>
        /\ UNCHANGED timed_vars

(* Mutation: an exception of poll_func ends the loop. *)
SchedPollRaise_exit ==
    \E h \in 1..Len(scheds) :
        /\ scheds[h].pc = "poll"
        /\ scheds' = [scheds EXCEPT ![h].pc = "stopped"]
        /\ last_call' = "other"
        /\ UNCHANGED <<mgr_vars, queue_vars, cons_vars, hist_vars, proc_stop, mpc, put_before_stop>>
        /\ UNCHANGED timed_vars

(* poll_func raises: nothing is put; sleep(1) unless already stopped. *)
SchedPollRaise ==
    \E h \in 1..Len(scheds) :
        /\ scheds[h].pc = "poll"
        /\ scheds' = [scheds EXCEPT ![h].pc = IF scheds[h].stop_set THEN "stopped" ELSE "sleep"]
        /\ last_call' = "other"
        /\ UNCHANGED <<mgr_vars, queue_vars, cons_vars, hist_vars, proc_stop, mpc, put_before_stop>>
        /\ UNCHANGED timed_vars

(* asyncio.sleep(1) is over: next_run_time += interval and the while test. *)
SchedSleepDone ==
    \E h \in 1..Len(scheds) :
        /\ scheds[h].pc = "sleep"
        /\ scheds' = [scheds EXCEPT ![h].pc = LoopCheck(h)]
        /\ last_call' = "other"
        /\ UNCHANGED <<mgr_vars, queue_vars, cons_vars, hist_vars, proc_stop, mpc, put_before_stop>>
        /\ UNCHANGED timed_vars

(***************************************************************************)
(* OutputProcessor.run                                                     *)
(***************************************************************************)

(* "while not self.stop_event.is_set()" followed by the creation of        *)
(* get_task and stop_task and the await of asyncio.wait.                   *)
LoopHead ==
    IF proc_stop
    THEN /\ cpc' = "done" /\ get_task' = "none" /\ stop_task' = "none"
    ELSE /\ cpc' = "waiting" /\ get_task' = "pending" /\ stop_task' = "pending"

(* Mutation: the next queue.get() runs while handler.handle is in progress. *)
GetTaskRun_prefetch ==
    /\ cpc \in {"waiting", "handling"}
    /\ cpc = "waiting" => get_task = "pending"
    /\ queue # <<>>
    /\ result' = Some(Head(queue))
    /\ queue' = Tail(queue)
    /\ get_task' = "done"
    /\ last_call' = "other"
    /\ UNCHANGED <<mgr_vars, scheds, unfinished, emitted, cpc, stop_task, processed_count,
                   error_count, hist_vars, proc_stop, mpc, put_before_stop>>
    /\ UNCHANGED timed_vars

(* get_task runs queue.get(): it takes the head of the queue and finishes. *)
GetTaskRun ==
    /\ cpc = "waiting"
    /\ get_task = "pending"
    /\ queue # <<>>
    /\ result' = Some(Head(queue))
    /\ queue' = Tail(queue)
    /\ get_task' = "done"
    /\ last_call' = "other"
    /\ UNCHANGED <<mgr_vars, scheds, unfinished, emitted, cpc, stop_task, processed_count,
                   error_count, hist_vars, proc_stop, mpc, put_before_stop>>
    /\ UNCHANGED timed_vars

(* stop_task runs stop_event.wait(): it finishes once the event is set. *)
StopTaskRun ==
    /\ cpc = "waiting"
    /\ stop_task = "pending"
    /\ proc_stop
    /\ stop_task' = "done"
    /\ last_call' = "other"
    /\ UNCHANGED <<mgr_vars, scheds, queue_vars, cpc, get_task, result, processed_count,
                   error_count, hist_vars, proc_stop, mpc, put_before_stop>>
    /\ UNCHANGED timed_vars

(* After the pending tasks were cancelled: "if self.stop_event.is_set():   *)
(* break", else the item is validated, the status updated and              *)
(* handler.handle called (the consumer suspends in it).                    *)
AfterWait ==
    IF proc_stop
    THEN /\ cpc' = "done"
         /\ result' = None
         /\ last_call' = "other"
         /\ UNCHANGED <<target_statuses, hist_vars>>
    ELSE LET item == result[1] IN
         /\ cpc' = "handling"
         /\ target_statuses' =
                update_target_status(target_statuses, item.target_id, item.value, item.timestamp)
         /\ applied' = Append(applied, [task |-> item.task, seq |-> item.seq])
         /\ handled' = Append(handled, [task |-> item.task, seq |-> item.seq])
         /\ last_call' = "other"
         /\ UNCHANGED <<result, counted>>

(* asyncio.wait returns: the task that did not finish is cancelled and     *)
(* awaited (a suspension); with nothing pending the code goes straight on. *)
ConsumerResume ==
    /\ cpc = "waiting"
    /\ get_task = "done" \/ stop_task = "done"
    /\ IF get_task = "done" /\ stop_task = "done"
       THEN /\ AfterWait
            /\ UNCHANGED <<get_task, stop_task>>
       ELSE /\ cpc' = "cancelling"
            /\ get_task' = IF get_task = "pending" THEN "cancelled" ELSE get_task
            /\ stop_task' = IF stop_task = "pending" THEN "cancelled" ELSE stop_task
            /\ last_call' = "other"
            /\ UNCHANGED <<target_statuses, result, hist_vars>>
    /\ UNCHANGED <<targets, tasks, stop_events, active_targets, scheds, queue_vars,
                   processed_count, error_count, proc_stop, mpc, put_before_stop>>
    /\ UNCHANGED timed_vars

(* The cancelled task has finished; the consumer goes on after the loop    *)
(* over pending.                                                           *)
ConsumerAfterCancel ==
    /\ cpc = "cancelling"
    /\ AfterWait
    /\ UNCHANGED <<targets, tasks, stop_events, active_targets, scheds, queue_vars,
                   get_task, stop_task, processed_count, error_count, proc_stop, mpc,
                   put_before_stop>>
    /\ UNCHANGED timed_vars

(* Mutation: an exception in the per-item code ends the loop. *)
ConsumerHandleRaise_exit ==
    /\ cpc = "handling"
    /\ error_count' = error_count + 1
    /\ result' = None
    /\ cpc' = "done" /\ get_task' = "none" /\ stop_task' = "none"
    /\ last_call' = "other"
    /\ UNCHANGED <<mgr_vars, scheds, queue_vars, processed_count, hist_vars, proc_stop, mpc,
                   put_before_stop>>
    /\ UNCHANGED timed_vars

(* handler.handle (or a metric update) raises: "except Exception" counts   *)
(* the error; task_done() is not reached; next iteration.                  *)
ConsumerHandleRaise ==
    /\ cpc = "handling"
    /\ error_count' = error_count + 1
    /\ result' = None
    /\ LoopHead
    /\ last_call' = "other"
    /\ UNCHANGED <<mgr_vars, scheds, queue_vars, processed_count, hist_vars, proc_stop, mpc,
                   put_before_stop>>
    /\ UNCHANGED timed_vars

(* handler.handle returns: processed_count += 1, metrics, queue.task_done() *)
(* (which wakes a join() waiter when the count reaches 0), next iteration. *)
ConsumerHandleReturn ==
    /\ cpc = "handling"
    /\ processed_count' = processed_count + 1
    /\ counted' = LET item == result[1] IN
                  IF item.target_id \in DOMAIN counted
                  THEN [counted EXCEPT ![item.target_id] =
                           [n |-> @.n + 1, e |-> IF item.value < 0 THEN @.e + 1 ELSE @.e]]
                  ELSE counted
    /\ unfinished' = unfinished - 1
    /\ mpc' = IF mpc = "join" /\ unfinished' = 0 THEN "join_woken" ELSE mpc
    /\ result' = None
    /\ LoopHead
    /\ last_call' = "other"
    /\ UNCHANGED <<mgr_vars, scheds, queue, emitted, error_count, applied, handled, proc_stop,
                   put_before_stop>>
    /\ UNCHANGED timed_vars

(***************************************************************************)
(* main: the shutdown sequence                                             *)
(***************************************************************************)

(* The signal handler sets shutdown_event; main sets server.should_exit    *)
(* and awaits server_task.                                                 *)
MainSignal ==
    /\ mpc = "running"
    /\ mpc' = "await_server"
    /\ last_call' = "other"
    /\ UNCHANGED <<mgr_vars, scheds, queue_vars, cons_vars, hist_vars, proc_stop, put_before_stop>>
    /\ UNCHANGED timed_vars

(* server_task is done: stop_all(); then either join() on a non-empty      *)
(* queue, or stop_event.set() and await output_task.                       *)
MainStopAll ==
    /\ mpc = "await_server"
    /\ SetMgr(stop_all(Mgr))
    /\ put_before_stop' = emitted
    /\ IF queue # <<>>
       THEN /\ mpc' = "join"
            /\ UNCHANGED proc_stop
       ELSE /\ mpc' = "await_output"
            /\ proc_stop' = TRUE
    /\ last_call' = "other"
    /\ counted' = EmptyDict
    /\ UNCHANGED <<queue_vars, cons_vars, applied, handled>>
    /\ UNCHANGED timed_vars

(* result_queue.join() has returned: stop_event.set(), await output_task. *)
MainJoinReturn ==
    /\ mpc = "join_woken"
    /\ mpc' = "await_output"
    /\ proc_stop' = TRUE
    /\ last_call' = "other"
    /\ UNCHANGED <<mgr_vars, scheds, queue_vars, cons_vars, hist_vars, put_before_stop>>
    /\ UNCHANGED timed_vars

(* output_task has finished: "Shutdown complete." *)
MainExit ==
    /\ mpc = "await_output"
    /\ cpc = "done"
    /\ mpc' = "done"
    /\ last_call' = "other"
    /\ UNCHANGED <<mgr_vars, scheds, queue_vars, cons_vars, hist_vars, proc_stop, put_before_stop>>
    /\ UNCHANGED timed_vars

Next ==
    \/ StartMonitoring
    \/ StopMonitoring
    \/ SchedStart
    \/ SchedWake
    \/ SchedPollReturn
    \/ SchedPollRaise
    \/ SchedSleepDone
    \/ GetTaskRun
    \/ StopTaskRun
    \/ ConsumerResume
    \/ ConsumerAfterCancel
    \/ ConsumerHandleRaise
    \/ ConsumerHandleReturn
    \/ MainSignal
    \/ MainStopAll
    \/ MainJoinReturn
    \/ MainExit

Spec == Init /\ [][Next]_vars

(***************************************************************************)
(* Restart specification: Spec with room for one more scheduler task, so   *)
(* that a target can be started again after it was stopped.                *)
(***************************************************************************)

(* manager.start_monitoring(target), as in StartMonitoring. *)
StartMonitoringAgain ==
    \E id \in Ids, d \in TargetDefs :
        LET t == [id |-> id, name |-> d.name, interval |-> d.interval, timeout |-> d.timeout] IN
        /\ ApiServing
        /\ id \in DOMAIN tasks \/ Len(scheds) < MaxTasks + MaxRestarts
        /\ SetMgr(start_monitoring(Mgr, t))
        /\ last_call' = IF id \in DOMAIN tasks THEN "start_dup" ELSE "other"
        /\ counted' = IF id \in DOMAIN tasks THEN counted ELSE Put(counted, id, [n |-> 0, e |-> 0])
        /\ UNCHANGED <<queue_vars, cons_vars, applied, handled, proc_stop, mpc, put_before_stop>>
        /\ UNCHANGED timed_vars

RestartNext ==
    \/ StartMonitoringAgain
    \/ StopMonitoring
    \/ SchedStart
    \/ SchedWake
    \/ SchedPollReturn
    \/ SchedPollRaise
    \/ SchedSleepDone
    \/ GetTaskRun
    \/ StopTaskRun
    \/ ConsumerResume
    \/ ConsumerAfterCancel
    \/ ConsumerHandleRaise
    \/ ConsumerHandleReturn
    \/ MainSignal
    \/ MainStopAll
    \/ MainJoinReturn
    \/ MainExit

RestartSpec == Init /\ [][RestartNext]_vars

(***************************************************************************)
(* API specification: the daemon driven through its HTTP routes            *)
(* (api/routes.py) instead of direct calls of the manager.                 *)
(***************************************************************************)

(* Mutation: the model validator accepts every body. *)
check_interval_none(d) == TRUE

(* models.py TargetCreate.check_interval: TRUE when the validator passes,  *)
(* FALSE when it raises ValueError.                                        *)
check_interval(d) == ~(d.interval < d.timeout)

(* uuid.uuid4(): an id no target ever had. *)
FreshIds == Ids \ {scheds[h].id : h \in 1..Len(scheds)}

(* POST /targets: the body is validated as TargetCreate (a failure is      *)
(* answered 422 before the handler runs); the handler builds a Target,     *)
(* whose id is fresh, and calls manager.start_monitoring(target).          *)
AddTarget ==
    \E d \in CreateInputs :
        /\ ApiServing
        /\ IF ~check_interval(d)
           THEN /\ last_call' = "create_rejected"
                /\ UNCHANGED <<mgr_vars, scheds, counted>>
           ELSE \E id \in FreshIds :
                    LET t == [id |-> id, name |-> d.name, interval |-> d.interval,
                              timeout |-> d.timeout] IN
                    /\ Len(scheds) < MaxTasks
                    /\ SetMgr(start_monitoring(Mgr, t))
                    /\ last_call' = "other"
                    /\ counted' = Put(counted, id, [n |-> 0, e |-> 0])
        /\ UNCHANGED <<queue_vars, cons_vars, applied, handled, proc_stop, mpc, put_before_stop>>
        /\ UNCHANGED timed_vars

(* Mutation: DELETE without the existence check: always 204. *)
RemoveTarget_nocheck ==
    \E id \in Ids :
        /\ ApiServing
        /\ SetMgr(stop_monitoring(Mgr, id))
        /\ last_call' = "delete_ok"
        /\ counted' = Del(counted, id)
        /\ UNCHANGED <<queue_vars, cons_vars, applied, handled, proc_stop, mpc, put_before_stop>>
        /\ UNCHANGED timed_vars

(* DELETE /targets/{id}: 404 when get_target(id) is None, else             *)
(* manager.stop_monitoring(id) and 204.                                    *)
RemoveTarget ==
    \E id \in Ids :
        /\ ApiServing
        /\ IF get_target(Mgr, id) = None
           THEN /\ last_call' = "delete_not_found"
                /\ UNCHANGED <<mgr_vars, scheds, counted>>
           ELSE /\ SetMgr(stop_monitoring(Mgr, id))
                /\ last_call' = "delete_ok"
                /\ counted' = Del(counted, id)
        /\ UNCHANGED <<queue_vars, cons_vars, applied, handled, proc_stop, mpc, put_before_stop>>
        /\ UNCHANGED timed_vars

ApiNext ==
    \/ AddTarget
    \/ RemoveTarget
    \/ SchedStart
    \/ SchedWake
    \/ SchedPollReturn
    \/ SchedPollRaise
    \/ SchedSleepDone
    \/ GetTaskRun
    \/ StopTaskRun
    \/ ConsumerResume
    \/ ConsumerAfterCancel
    \/ ConsumerHandleRaise
    \/ ConsumerHandleReturn
    \/ MainSignal
    \/ MainStopAll
    \/ MainJoinReturn
    \/ MainExit

ApiSpec == Init /\ [][ApiNext]_vars

(***************************************************************************)
(* Timed specification: one scheduler task (periodic_task.wrapper around   *)
(* one poll per cycle) against loop.time() in whole seconds.  The          *)
(* environment lets the clock tick, lets the poll take up to timeout       *)
(* seconds, and sets the stop event.                                       *)
(***************************************************************************)

(* "delay = max(0, next_run_time - now)" *)
delay(next_run_time, now) == IF next_run_time - now > 0 THEN next_run_time - now ELSE 0

(* Mutation: the next run is scheduled from the end of the cycle. *)
NextRunTime_fromnow(next_run_time, now, interval) == now + interval

(* "next_run_time += interval" *)
NextRunTime(next_run_time, now, interval) == next_run_time + interval

(* "while not stop_event.is_set()": where the task is after the test. *)
WhilePc(stop_set) == IF stop_set THEN "stopped" ELSE "wait"

(* Mutation: the stop event is not tested after the wait. *)
AfterWaitPc_nocheck(stop_set) == "poll"

(* "if stop_event.is_set(): break" after the wait, else the poll starts. *)
AfterWaitPc(stop_set) == IF stop_set THEN "stopped" ELSE "poll"

(* End of a cycle: next_run_time += interval, the while test, and, when    *)
(* the loop goes on, the delay of the next wait.                           *)
EndCycle ==
    LET nrt == NextRunTime(timed.next_run_time, clock, timed.interval) IN
    [timed EXCEPT !.next_run_time = nrt,
                  !.pc = WhilePc(timed.stop_set),
                  !.until = clock + delay(nrt, clock)]

(* A scheduler task has just been created for a valid definition. *)
TimedInit ==
    /\ DaemonInit
    /\ clock = 0
    /\ \E d \in TimedDefs :
           timed = [interval |-> d.interval, timeout |-> d.timeout, pc |-> "created",
                    start_time |-> 0, next_run_time |-> 0, until |-> 0, stop_set |-> FALSE,
                    stopped_in |-> "none", emits_at_stop |-> 0]
    /\ emit_times = <<>>
    /\ raised = FALSE

(* First run of the task: next_run_time = loop.time(), the while test and  *)
(* the delay of the first wait.                                            *)
TimedStart ==
    /\ timed.pc = "created"
    /\ timed' = [timed EXCEPT !.start_time = clock,
                              !.next_run_time = clock,
                              !.pc = WhilePc(timed.stop_set),
                              !.until = clock + delay(clock, clock)]
    /\ UNCHANGED <<daemon_vars, clock, emit_times, raised>>

(* Mutation: a plain sleep(delay) instead of the wait on the stop event,   *)
(* and no stop test before the poll.                                       *)
TimedWake_timeoutonly ==
    /\ timed.pc = "wait"
    /\ clock >= timed.until
    /\ timed' = [timed EXCEPT !.pc = "poll", !.until = clock + timed.timeout]
    /\ UNCHANGED <<daemon_vars, clock, emit_times, raised>>

(* wait_for(stop_event.wait(), timeout=delay) is over: the event is set or *)
(* the delay has passed; the stop test; the poll starts and has timeout    *)
(* seconds.                                                                *)
TimedWake ==
    /\ timed.pc = "wait"
    /\ timed.stop_set \/ clock >= timed.until
    /\ timed' = [timed EXCEPT !.pc = AfterWaitPc(timed.stop_set),
                              !.until = clock + timed.timeout]
    /\ UNCHANGED <<daemon_vars, clock, emit_times, raised>>

(* Mutation: the stream yields two results in one cycle. *)
TimedPollReturn_twice ==
    /\ timed.pc = "poll"
    /\ emit_times' = emit_times \o <<clock, clock>>
    /\ timed' = EndCycle
    /\ UNCHANGED <<daemon_vars, clock, raised>>

(* The poll returns (a reading, or -1 at its timeout): the result is put   *)
(* on the queue, and the cycle ends.                                       *)
TimedPollReturn ==
    /\ timed.pc = "poll"
    /\ emit_times' = Append(emit_times, clock)
    /\ timed' = EndCycle
    /\ UNCHANGED <<daemon_vars, clock, raised>>

(* The poll raises: nothing is put; asyncio.sleep(1) unless the stop event *)
(* is set, in which case the cycle ends at once.                           *)
TimedPollRaise ==
    /\ timed.pc = "poll"
    /\ timed.stop_set \/ clock < MaxTime
    /\ raised' = TRUE
    /\ timed' = IF timed.stop_set
                THEN EndCycle
                ELSE [timed EXCEPT !.pc = "sleep", !.until = clock + 1]
    /\ UNCHANGED <<daemon_vars, clock, emit_times>>

(* asyncio.sleep(1) is over: the cycle ends. *)
TimedSleepDone ==
    /\ timed.pc = "sleep"
    /\ clock >= timed.until
    /\ timed' = EndCycle
    /\ UNCHANGED <<daemon_vars, clock, emit_times, raised>>

(* stop_monitoring sets the task's stop event.  History: where the task   *)
(* was (stopped_in) and how many results it had put (emits_at_stop).       *)
TimedStop ==
    /\ timed.pc # "none"
    /\ ~timed.stop_set
    /\ timed' = [timed EXCEPT !.stop_set = TRUE,
                              !.stopped_in = timed.pc,
                              !.emits_at_stop = Len(emit_times)]
    /\ UNCHANGED <<daemon_vars, clock, emit_times, raised>>

(* One second passes.  A task that is ready to run runs before the clock   *)
(* moves, and a poll does not outlast its timeout.                         *)
Tick ==
    /\ clock < MaxTime
    /\ timed.pc # "created"
    /\ timed.pc = "wait" => ~timed.stop_set /\ clock < timed.until
    /\ timed.pc \in {"poll", "sleep"} => clock < timed.until
    /\ clock' = clock + 1
    /\ UNCHANGED <<daemon_vars, timed, emit_times, raised>>

TimedNext ==
    \/ TimedStart
    \/ TimedWake
    \/ TimedPollReturn
    \/ TimedPollRaise
    \/ TimedSleepDone
    \/ TimedStop
    \/ Tick

TimedSpec == TimedInit /\ [][TimedNext]_vars

(* The event loop runs every task that is ready, timers expire, and a poll *)
(* in flight returns or raises in finite time.                             *)
TimedFairSpec ==
    /\ TimedSpec
    /\ WF_vars(TimedStart)
    /\ WF_vars(TimedWake)
    /\ WF_vars(TimedPollReturn \/ TimedPollRaise)
    /\ WF_vars(TimedSleepDone)
    /\ WF_vars(Tick)

(***************************************************************************)
(* Properties                                                              *)
(***************************************************************************)

Seqs(h) == {h[i].seq : i \in 1..Len(h)}
InQueue(s) == \E i \in 1..Len(queue) : queue[i].seq = s
Held(s) == result # None /\ result[1].seq = s
NoDuplicates(h) == \A i, j \in 1..Len(h) : h[i].seq = h[j].seq => i = j

(* The step in which the consumer passes result[1] to update_target_status. *)
ApplyStep == Len(applied') = Len(applied) + 1

(* The step in which the per-item code of the consumer raises. *)
RaiseStep == cpc = "handling" /\ cpc' # "handling" /\ processed_count' = processed_count

(* C1: in every reachable state the ids of targets, target_statuses, tasks *)
(* and stop_events are the same set.                                       *)
C1_RegistryInLockStep ==
    /\ DOMAIN targets = DOMAIN target_statuses
    /\ DOMAIN target_statuses = DOMAIN tasks
    /\ DOMAIN tasks = DOMAIN stop_events

(* C2: update_target_status for an id that is not registered leaves        *)
(* targets, target_statuses, tasks and stop_events unchanged.              *)
C2_UpdateUnknownIsNoOp ==
    [][(ApplyStep /\ result[1].target_id \notin DOMAIN tasks)
          => UNCHANGED <<targets, target_statuses, tasks, stop_events>>]_vars

(* C3: when the consumer task has exited, every result that was put on the *)
(* queue before main called stop_all has been passed to                    *)
(* update_target_status and to the output handler.                         *)
C3_DrainedBeforeExit ==
    cpc = "done" =>
        \A s \in 1..put_before_stop : s \in Seqs(applied) /\ s \in Seqs(handled)

(* C4: the shutdown sequence never deadlocks: from the shutdown signal     *)
(* until main has joined the consumer, some task can always take a step.   *)
C4_ShutdownNeverDeadlocks ==
    mpc \in {"await_server", "join", "join_woken", "await_output"} => ENABLED Next

(* C5: the consumer loop exits only with its stop signal set and the       *)
(* result queue empty.                                                     *)
C5_ExitOnlyWhenQueueEmpty ==
    [][(cpc # "done" /\ cpc' = "done") => (proc_stop' /\ queue' = <<>>)]_vars

(* C6: every result removed from the queue is passed to                    *)
(* update_target_status and to the handler exactly once: a result that is  *)
(* neither in the queue nor in the consumer's hands has been consumed.     *)
C6_DequeuedIsConsumedOnce ==
    /\ \A s \in 1..emitted :
           (~InQueue(s) /\ ~Held(s)) => (s \in Seqs(applied) /\ s \in Seqs(handled))
    /\ NoDuplicates(applied)
    /\ NoDuplicates(handled)

(* C7: when the per-item code raises, error_count grows by exactly one,    *)
(* processed_count stays, and the consumer is at its next wait with a      *)
(* fresh get_task (it leaves the loop only if the stop signal is set);     *)
(* the loop is never left without the stop signal.                         *)
C7_ItemFaultKeepsConsumer ==
    [][/\ RaiseStep =>
            /\ error_count' = error_count + 1
            /\ IF proc_stop THEN cpc' = "done"
                            ELSE cpc' = "waiting" /\ get_task' = "pending"
       /\ cpc' = "done" => proc_stop']_vars

(* C7 witness: after an item fault the consumer is handling a later item. *)
C7_Witness == error_count >= 1 /\ cpc = "handling" /\ ~proc_stop

(* C8: results of one target are applied in the order in which they were   *)
(* emitted; each applied result of a registered target raises check_count  *)
(* by exactly 1 and becomes last_value.                                    *)
C8_AppliedInEmissionOrder ==
    [][ApplyStep =>
          LET item == result[1] IN
          /\ \A i \in 1..Len(applied) :
                 scheds[applied[i].task].id = item.target_id => applied[i].seq < item.seq
          /\ item.target_id \in DOMAIN target_statuses =>
                 /\ target_statuses'[item.target_id].check_count
                        = target_statuses[item.target_id].check_count + 1
                 /\ target_statuses'[item.target_id].last_value = Some(item.value)]_vars

(* C8 witness: a registered target of which several results were applied. *)
C8_Witness ==
    \E id \in DOMAIN tasks :
        /\ id \in DOMAIN target_statuses
        /\ target_statuses[id].check_count >= 2
        /\ Cardinality({i \in 1..Len(applied) : applied[i].task = tasks[id]}) >= 2

(* C9: for a registered target, between two items of the consumer,         *)
(* check_count is the number N of its results counted in processed_count   *)
(* and error_count the number E of the negative ones.                      *)
C9_CountsMatchProcessed ==
    cpc # "handling" =>
        \A id \in DOMAIN tasks :
            /\ id \in DOMAIN target_statuses
            /\ target_statuses[id].check_count = counted[id].n
            /\ target_statuses[id].error_count = counted[id].e

(* C10: start_monitoring for an id that already has a running task changes *)
(* nothing: definition, status, task, cancellation signal, active count,   *)
(* and no scheduler task is spawned.                                       *)
C10_DuplicateStartIsNoOp ==
    [][last_call' = "start_dup" =>
          UNCHANGED <<targets, target_statuses, tasks, stop_events, active_targets, scheds>>]_vars

(* C10 witness: a duplicate start for a target whose status already counts checks. *)
C10_Witness ==
    /\ last_call = "start_dup"
    /\ \E id \in DOMAIN tasks : target_statuses[id].check_count > 0

(* The ids whose scheduler task is registered by this step, and those      *)
(* whose task is removed by it.                                            *)
Registered == (DOMAIN tasks') \ (DOMAIN tasks)
Removed == (DOMAIN tasks) \ (DOMAIN tasks')

(* The zero-valued status, written out. *)
ZeroStatus ==
    [last_check |-> <<>>, last_value |-> <<>>, check_count |-> 0, error_count |-> 0]

(* C11: a step that registers target t under an id that had no task is a   *)
(* start_monitoring(t) after which get_target(t.id) returns t's            *)
(* definition, t.id is in targets, target_statuses, tasks and stop_events, *)
(* its status is the zero-valued one, and the active count (len(tasks) and *)
(* the gauge) is one more than before.                                     *)
C11_FreshStartRegisters ==
    [][\A id \in Registered :
          \E d \in TargetDefs :
              LET t == [id |-> id, name |-> d.name, interval |-> d.interval,
                        timeout |-> d.timeout] IN
              /\ Mgr' = start_monitoring(Mgr, t)
              /\ get_target(Mgr', id) = <<d>>
              /\ id \in DOMAIN targets'
              /\ id \in DOMAIN target_statuses'
              /\ id \in DOMAIN tasks'
              /\ id \in DOMAIN stop_events'
              /\ target_statuses'[id] = ZeroStatus
              /\ get_active_count(Mgr') = get_active_count(Mgr) + 1
              /\ active_targets' = active_targets + 1]_vars

(* C11 witness: a target has just been registered; its task has not run. *)
C11_Witness ==
    \E id \in DOMAIN tasks :
        /\ scheds[tasks[id]].pc = "created"
        /\ id \in DOMAIN targets
        /\ target_statuses[id] = ZeroStatus
        /\ active_targets = Cardinality(DOMAIN tasks)

C13_StopUnknownIsNoOp ==
    [][last_call' = "stop_unknown" =>
          UNCHANGED <<targets, target_statuses, tasks, stop_events, active_targets, scheds>>]_vars

(* C13 witness: stop_monitoring was called for a target already stopped. *)
C13_Witness ==
    /\ last_call = "stop_unknown"
    /\ \E h \in 1..Len(scheds) : scheds[h].stop_set /\ scheds[h].id \notin DOMAIN tasks

(* C14: when stop_all() returns, every target that was registered has its  *)
(* cancellation signal set, the active count is 0 and targets,             *)
(* target_statuses, tasks and stop_events are empty.                       *)
C14_StopAllEmptiesRegistry ==
    [][(mpc = "await_server" /\ mpc' # "await_server") =>
          /\ \A id \in DOMAIN tasks : scheds'[tasks[id]].stop_set
          /\ get_active_count(Mgr') = 0
          /\ active_targets' = 0
          /\ targets' = EmptyDict
          /\ target_statuses' = EmptyDict
          /\ tasks' = EmptyDict
          /\ stop_events' = EmptyDict]_vars

(* C17: handler.handle is called at most once per enqueued result and      *)
(* never concurrently: while a handle call is in progress no result is     *)
(* taken from the queue and no other handle call starts; a handle call     *)
(* starts only from the wait, for the result just dequeued, which was not  *)
(* handled before.                                                         *)
C17_HandleOneAtATime ==
    [][/\ cpc = "handling" =>
              /\ handled' = handled
              /\ Len(queue') >= Len(queue)
              /\ result' \in {result, <<>>}
       /\ handled' # handled =>
              /\ cpc # "handling"
              /\ cpc' = "handling"
              /\ result # <<>>
              /\ result' = result
              /\ handled' = Append(handled, [task |-> result[1].task, seq |-> result[1].seq])
              /\ result[1].seq \notin Seqs(handled)
              /\ ~InQueue(result[1].seq)]_vars

(* C17 witness: a handle call is in progress while a later result waits in *)
(* the queue.                                                              *)
C17_Witness == cpc = "handling" /\ Len(handled) >= 1 /\ queue # <<>>

(* C18: no step leaves a registry mutation half done: a step that changes  *)
(* whether an id is in targets, tasks or stop_events is a whole            *)
(* start_monitoring or stop_monitoring, after which the id is in all four  *)
(* maps or in none; a step that changes target_statuses alone is a whole   *)
(* update_target_status.                                                   *)
C18_MutationsAreWhole ==
    [][\A id \in Ids :
          /\ \/ (id \in DOMAIN targets') # (id \in DOMAIN targets)
             \/ (id \in DOMAIN tasks') # (id \in DOMAIN tasks)
             \/ (id \in DOMAIN stop_events') # (id \in DOMAIN stop_events)
             => \/ id \in (DOMAIN targets') \cap (DOMAIN target_statuses')
                             \cap (DOMAIN tasks') \cap (DOMAIN stop_events')
                \/ id \notin (DOMAIN targets') \cup (DOMAIN target_statuses')
                             \cup (DOMAIN tasks') \cup (DOMAIN stop_events')
          /\ (target_statuses' # target_statuses /\ UNCHANGED <<targets, tasks, stop_events>>)
             => /\ ApplyStep
                /\ target_statuses' = update_target_status(target_statuses,
                       result[1].target_id, result[1].value, result[1].timestamp)]_vars

(* C18 witness: a target was started and stopped while the consumer held   *)
(* one of its results, and another task runs next.                         *)
C18_Witness ==
    /\ result # <<>>
    /\ result[1].target_id \notin DOMAIN tasks
    /\ cpc \in {"waiting", "cancelling"}
    /\ DOMAIN targets = DOMAIN tasks
    /\ DOMAIN target_statuses = DOMAIN tasks
    /\ DOMAIN stop_events = DOMAIN tasks

(* C20: stats() reports as active_targets the number of scheduler tasks    *)
(* that were not stopped and as processed_messages the number of results   *)
(* whose handling has finished without an exception; with every target     *)
(* stopped active_targets is 0.                                            *)
C20_StatsReportCounts ==
    LET s == get_stats(Mgr, processed_count, Len(queue), error_count)
        running == {h \in 1..Len(scheds) : ~scheds[h].stop_set}
        P == Len(handled) - error_count - (IF cpc = "handling" THEN 1 ELSE 0)
    IN /\ s.active_targets = Cardinality(running)
       /\ s.processed_messages = P
       /\ (\A h \in 1..Len(scheds) : scheds[h].stop_set) => s.active_targets = 0

(* C20 witness: every target has been stopped after one result was         *)
(* processed and the handling of another one failed.                       *)
C20_Witness ==
    /\ Len(scheds) >= 1
    /\ \A h \in 1..Len(scheds) : scheds[h].stop_set
    /\ processed_count = 1
    /\ error_count = 1
    /\ cpc # "handling"

(* C15: with no poll raising, the K-th result of a scheduler started at    *)
(* start_time with interval I is emitted within one timeout of             *)
(* start_time + K*I.                                                       *)
C15_EmissionNearKthInterval ==
    ~raised =>
        \A K \in 1..Len(emit_times) :
            LET due == timed.start_time + K * timed.interval IN
            /\ emit_times[K] >= due - timed.timeout
            /\ emit_times[K] <= due + timed.timeout

(* C16: once the stop event of a scheduler task is set, the task           *)
(* eventually leaves its loop, and it starts no poll on the way.           *)
C16_CancellationObserved ==
    /\ timed.stop_set ~> timed.pc = "stopped"
    /\ [][(timed.stop_set /\ timed.pc # "poll") => timed'.pc # "poll"]_vars

(* C16 witness: a task that had put results on the queue and had paused    *)
(* after a raising poll has left its loop with the stop event set.         *)
C16_Witness ==
    /\ timed.stop_set
    /\ timed.pc = "stopped"
    /\ Len(emit_times) >= 2
    /\ raised

(* C19: a create whose body has interval < timeout is rejected before      *)
(* start_monitoring is called: targets, target_statuses, tasks,            *)
(* stop_events and the gauge are unchanged and no scheduler task is        *)
(* spawned; every create that registers a target registers one with        *)
(* interval >= timeout, and so has every target in the registry.           *)
C19_InvalidCreateRejected ==
    /\ [][/\ last_call' = "create_rejected" =>
                 UNCHANGED <<targets, target_statuses, tasks, stop_events,
                             active_targets, scheds>>
          /\ \A id \in Registered :
                 /\ targets'[id].interval >= targets'[id].timeout
                 /\ \E d \in CreateInputs :
                        /\ d.interval >= d.timeout
                        /\ targets'[id] = d]_vars
    /\ [](\A id \in DOMAIN targets : targets[id].interval >= targets[id].timeout)

(* C19 witness: a create with interval < timeout was rejected while a      *)
(* target created earlier is registered.                                   *)
C19_Witness ==
    /\ last_call = "create_rejected"
    /\ \E id \in DOMAIN targets : id \in DOMAIN tasks

(* C21: a delete answered not-found is one for an id that is not           *)
(* registered and leaves targets, target_statuses, tasks, stop_events, the *)
(* gauge and the scheduler tasks unchanged; a delete answered with success *)
(* is one stop_monitoring(id) for a registered id, after which             *)
(* get_target(id) is absent.                                               *)
C21_DeleteContract ==
    [][/\ last_call' = "delete_not_found" =>
              /\ UNCHANGED <<targets, target_statuses, tasks, stop_events,
                             active_targets, scheds>>
              /\ \E id \in Ids : id \notin DOMAIN targets
       /\ last_call' = "delete_ok" =>
              \E id \in DOMAIN targets :
                  /\ Mgr' = stop_monitoring(Mgr, id)
                  /\ Removed = {id}
                  /\ active_targets' = active_targets - 1
                  /\ get_target(Mgr', id) = <<>>]_vars

(* C21 witness: a second delete of a target that a first delete stopped    *)
(* is answered not-found.                                                  *)
C21_Witness ==
    /\ last_call = "delete_not_found"
    /\ \E h \in 1..Len(scheds) :
           scheds[h].stop_set /\ scheds[h].id \notin DOMAIN targets
    /\ mpc = "running"

(* C22: no poll is in progress and no result is emitted before one full    *)
(* interval has passed since the scheduler task started.                   *)
C22_NoPollBeforeFirstInterval ==
    /\ timed.pc = "poll" => clock >= timed.start_time + timed.interval
    /\ \A K \in 1..Len(emit_times) : emit_times[K] >= timed.start_time + timed.interval

(* C23: with the stop event set before or during the wait, the next step   *)
(* of the scheduler task takes it to the end of its loop; it starts no     *)
(* poll and puts no result, and it stays there.                            *)
C23_StopInWaitGoesToStopped ==
    [][/\ (timed.stop_set /\ timed.pc \in {"created", "wait"} /\ timed' # timed) =>
              /\ timed'.pc = "stopped"
              /\ emit_times' = emit_times
       /\ timed.pc = "stopped" =>
              /\ timed'.pc = "stopped"
              /\ emit_times' = emit_times]_vars

(* C23 witness: the stop event was set during a wait that followed an      *)
(* emission, before the deadline of the wait; the task has left its loop   *)
(* without another result.                                                 *)
C23_Witness ==
    /\ timed.pc = "stopped"
    /\ timed.stopped_in = "wait"
    /\ clock < timed.next_run_time
    /\ Len(emit_times) >= 1
    /\ Len(emit_times) = timed.emits_at_stop

(* C25: a poll that returns puts exactly one result, at the time of its    *)
(* return; a poll that raises puts none and is followed by a pause of      *)
(* exactly one second unless the stop event is set; at the end of either   *)
(* cycle next_run_time is the previous next_run_time plus interval; and    *)
(* nothing else puts a result or moves next_run_time.                      *)
C25_OneResultPerCycle ==
    [][LET endpoll == timed.pc = "poll" /\ timed'.pc # "poll"
           advanced == timed'.next_run_time = timed.next_run_time + timed.interval
       IN
       /\ (endpoll /\ emit_times' # emit_times) =>
              /\ emit_times' = Append(emit_times, clock)
              /\ advanced
              /\ timed'.pc = IF timed.stop_set THEN "stopped" ELSE "wait"
       /\ (endpoll /\ emit_times' = emit_times) =>
              IF timed.stop_set
              THEN advanced /\ timed'.pc = "stopped"
              ELSE /\ timed'.pc = "sleep"
                   /\ timed'.until = clock + 1
                   /\ timed'.next_run_time = timed.next_run_time
       /\ (timed.pc = "sleep" /\ timed'.pc # "sleep") =>
              /\ clock = timed.until
              /\ advanced
              /\ timed'.pc = IF timed.stop_set THEN "stopped" ELSE "wait"
       /\ timed.pc # "poll" => emit_times' = emit_times
       /\ timed.pc \in {"wait", "stopped"} =>
              timed'.next_run_time = timed.next_run_time]_vars

(* C25 witness: after a result and after a raising poll whose cycle ran    *)
(* past its deadline, the task waits with a deadline that is already       *)
(* behind the clock.                                                       *)
C25_Witness ==
    /\ raised
    /\ Len(emit_times) >= 1
    /\ timed.pc = "wait"
    /\ clock > timed.next_run_time

(* C27: once the stop event is set the scheduler task puts at most one     *)
(* more result, and only that of a poll that was in flight when the event  *)
(* was set.                                                                *)
C27_AtMostOneStraggler ==
    timed.stop_set =>
        /\ Len(emit_times) <= timed.emits_at_stop + 1
        /\ Len(emit_times) > timed.emits_at_stop => timed.stopped_in = "poll"

(* C27 witness: the task has left its loop after putting the result of the *)
(* poll that was in flight when the stop event was set.                    *)
C27_Witness ==
    /\ timed.pc = "stopped"
    /\ timed.stopped_in = "poll"
    /\ Len(emit_times) = timed.emits_at_stop + 1
    /\ timed.emits_at_stop >= 1

(* C24: a scheduler task is at the end of its loop only with its stop      *)
(* event set; while the event is not set, a poll that returns (a reading   *)
(* or the negative sentinel of a timeout) is followed by the next wait, a  *)
(* poll that raises by the pause, and the pause by the next wait.          *)
C24_StoppedOnlyBySignal ==
    [][\A h \in 1..Len(scheds) :
          /\ scheds'[h].pc = "stopped" => scheds'[h].stop_set
          /\ (~scheds[h].stop_set /\ scheds[h].pc = "poll" /\ scheds'[h].pc # "poll") =>
                 IF emitted' = emitted THEN scheds'[h].pc = "sleep"
                                       ELSE scheds'[h].pc = "wait"
          /\ (~scheds[h].stop_set /\ scheds[h].pc = "sleep" /\ scheds'[h].pc # "sleep") =>
                 scheds'[h].pc = "wait"]_vars

(* C24 witness: a task whose poll returned the negative sentinel is in its *)
(* next poll, its stop event not set.                                      *)
C24_Witness ==
    \E h \in 1..Len(scheds) :
        /\ ~scheds[h].stop_set
        /\ scheds[h].pc = "poll"
        /\ \E i \in 1..Len(queue) : queue[i].task = h /\ queue[i].value < 0

(* C26: at any time at most one scheduler task that has not left its loop  *)
(* exists per target id, and the results in the queue for one id come from *)
(* one task.                                                               *)
C26_OneLiveSchedulerPerId ==
    /\ \A id \in Ids :
           Cardinality({h \in 1..Len(scheds) :
                           scheds[h].id = id /\ scheds[h].pc # "stopped"}) <= 1
    /\ \A i, j \in 1..Len(queue) :
           queue[i].target_id = queue[j].target_id => queue[i].task = queue[j].task

(* C28: every status held by the manager has 0 <= error_count <=           *)
(* check_count, and check_count is 0 exactly when last_value and           *)
(* last_check are absent; while a target stays registered (its task stays  *)
(* in tasks) neither counter decreases.                                    *)
C28_StatusCountersConsistent ==
    /\ [](\A id \in DOMAIN target_statuses :
              LET st == target_statuses[id] IN
              /\ 0 <= st.error_count
              /\ st.error_count <= st.check_count
              /\ \/ st.check_count = 0 /\ st.last_value = <<>> /\ st.last_check = <<>>
                 \/ st.check_count > 0 /\ st.last_value # <<>> /\ st.last_check # <<>>)
    /\ [][\A id \in (DOMAIN tasks) \cap (DOMAIN tasks') :
              tasks'[id] = tasks[id] =>
                  /\ id \in DOMAIN target_statuses
                  /\ id \in DOMAIN target_statuses'
                  /\ target_statuses'[id].check_count >= target_statuses[id].check_count
                  /\ target_statuses'[id].error_count >= target_statuses[id].error_count]_vars

(* C28 witness: a registered target with two checks, one of them an error. *)
C28_Witness ==
    \E id \in DOMAIN tasks :
        /\ id \in DOMAIN target_statuses
        /\ target_statuses[id].check_count = 2
        /\ target_statuses[id].error_count = 1

====
